---- MODULE Spec2Model ----
(***************************************************************************)
(* Checkers move-decision engine of src/checkers.py: the board snapshot    *)
(* (BoardState), the move search (find_capture_move, find_simple_move),    *)
(* the game loop (make_moves), the move driver (perform_move), the turn    *)
(* synchronizer (wait_for_turn) and the restart handshake (restart_game),  *)
(* run against an asynchronously updating game surface.                    *)
(***************************************************************************)
EXTENDS Integers, Sequences, FiniteSets, TLC

VARIABLES
    \* ---- move-search harness (pure functions on one snapshot) ----
    raw,        \* the (name, src) pairs of the rendered elements
    state,      \* BoardState.pieces: insertion-ordered <<name, filename>> pairs
    phase,      \* position of the harness: "raw", "snapshot", "searched"
    capture,    \* result of find_capture_move(state)
    simple,     \* result of find_simple_move(state)
    move,       \* the move make_moves drives from this snapshot
    \* ---- the game surface (the page) ----
    board,      \* src file of every rendered cell
    message,    \* text of #message
    selected,   \* the piece a first click selected, or None
    pending,    \* clicks delivered to the page and not yet acted on
    turnNo,     \* number of player turns the surface has started
    \* ---- run_checkers_demo: make_moves, then restart_game ----
    pc,         \* position of the flow of control
    n,          \* number_of_moves
    i,          \* iterations of the loop of make_moves completed
    idx,        \* from_page: index of the element being read
    name,       \* from_page: the name read from that element
    pieces,     \* from_page: the dict under construction
    result,     \* outcome of make_moves: "running", "exhausted", "nomoves"
    trace,      \* what the flow did to the surface, in order
    seen        \* the boards the surface showed while from_page was reading

svars == <<raw, state, phase, capture, simple, move>>

surface == <<board, message, selected, pending, turnNo>>

lvars == <<pc, n, i, idx, name, pieces, result, trace, seen>>

vars == <<raw, state, phase, capture, simple, move, board, message, selected,
          pending, turnNo, pc, n, i, idx, name, pieces, result, trace, seen>>

-----------------------------------------------------------------------------
(* Bounds *)

\* largest number of rendered elements in a snapshot of the search harness
MaxCells == 4

\* largest number_of_moves make_moves is called with
MaxMoves == 2

\* number of legal replies the opponent chooses among
MaxReplies == 1

-----------------------------------------------------------------------------
(* Strings are sequences of characters; a src is its "/"-separated parts. *)

None == <<>>

DigitChars == <<"0", "1", "2", "3", "4", "5", "6", "7", "8", "9">>

\* int(c) for a one-character string c
IntOf(c) == CHOOSE d \in 0..9 : DigitChars[d + 1] = c

\* the text an f-string produces for a one-digit integer
StrOf(d) == DigitChars[d + 1]

Prefix == <<"s", "p", "a", "c", "e">>

\* f"space{x}{y}" (without the img[name=...] selector around it)
CellName(x, y) == Prefix \o <<StrOf(x), StrOf(y)>>

YOU == "you1.gif"
ME == "me1.gif"
GRAY == "gray.gif"

\* src.split("/")[-1] if src else ""
Filename(src) == IF src = None THEN "" ELSE src[Len(src)]

-----------------------------------------------------------------------------
(* BoardState *)

\* pieces[name] = filename on an insertion-ordered dict
DictSet(dict, key, filename) ==
    IF \E k \in 1..Len(dict) : dict[k][1] = key
    THEN [k \in 1..Len(dict) |->
            IF dict[k][1] = key THEN <<key, filename>> ELSE dict[k]]
    ELSE Append(dict, <<key, filename>>)

\* one iteration of the loop of from_page over an element (name, src)
ReadElement(dict, key, src) ==
    IF key = None THEN dict ELSE DictSet(dict, key, Filename(src))

RECURSIVE FromPairs(_, _)
FromPairs(dict, pairs) ==
    IF pairs = <<>> THEN dict
    ELSE FromPairs(ReadElement(dict, Head(pairs)[1], Head(pairs)[2]), Tail(pairs))

\* x, y = int(name[5]), int(name[6])
Coord(key) == <<IntOf(key[6]), IntOf(key[7])>>

\* the coordinates a view yields, in dict order
View(dict, file) ==
    LET sel == SelectSeq(dict, LAMBDA e : e[2] = file)
    IN [k \in 1..Len(sel) |-> Coord(sel[k][1])]

player_pieces(dict) == View(dict, YOU)

\* a copy of player_pieces whose file name was not changed
opponent_pieces_copied(dict) == View(dict, YOU)

opponent_pieces(dict) == View(dict, ME)

empty_playable_squares(dict) == View(dict, GRAY)

Range(s) == {s[k] : k \in 1..Len(s)}

-----------------------------------------------------------------------------
(* Move search *)

\* capture_ok without the test that the destination is on the board
capture_ok_unbounded(x, y, dx, opponents, empties) ==
    /\ <<x + (dx \div 2), y + 1>> \in opponents
    /\ <<x + dx, y + 2>> \in empties

\* the test of one direction dx of one piece (x, y) in find_capture_move
capture_ok(x, y, dx, opponents, empties) ==
    LET dest_x == x + dx
        dest_y == y + 2
        mid_x == x + (dx \div 2)
        mid_y == y + 1
    IN /\ 0 <= dest_x /\ dest_x <= 7 /\ 0 <= dest_y /\ dest_y <= 7
       /\ <<mid_x, mid_y>> \in opponents
       /\ <<dest_x, dest_y>> \in empties

RECURSIVE ScanCapture(_, _, _, _)
ScanCapture(pp, k, opponents, empties) ==
    IF k > Len(pp) THEN None
    ELSE LET x == pp[k][1]
             y == pp[k][2]
         IN IF capture_ok(x, y, -2, opponents, empties)
            THEN <<<<x, y>>, <<x - 2, y + 2>>>>
            ELSE IF capture_ok(x, y, 2, opponents, empties)
            THEN <<<<x, y>>, <<x + 2, y + 2>>>>
            ELSE ScanCapture(pp, k + 1, opponents, empties)

find_capture_move(st) ==
    ScanCapture(player_pieces(st), 1,
                Range(opponent_pieces(st)), Range(empty_playable_squares(st)))

\* simple_ok without the test that the destination is empty
simple_ok_any(x, y, dx, empties) ==
    /\ 0 <= x + dx /\ x + dx <= 7 /\ 0 <= y + 1 /\ y + 1 <= 7

\* the test of one direction dx of one piece (x, y) in find_simple_move
simple_ok(x, y, dx, empties) ==
    LET dest_x == x + dx
        dest_y == y + 1
    IN /\ 0 <= dest_x /\ dest_x <= 7 /\ 0 <= dest_y /\ dest_y <= 7
       /\ <<dest_x, dest_y>> \in empties

RECURSIVE ScanSimple(_, _, _)
ScanSimple(pp, k, empties) ==
    IF k > Len(pp) THEN None
    ELSE LET x == pp[k][1]
             y == pp[k][2]
         IN IF simple_ok(x, y, -1, empties)
            THEN <<<<x, y>>, <<x - 1, y + 1>>>>
            ELSE IF simple_ok(x, y, 1, empties)
            THEN <<<<x, y>>, <<x + 1, y + 1>>>>
            ELSE ScanSimple(pp, k + 1, empties)

find_simple_move(st) ==
    ScanSimple(player_pieces(st), 1, Range(empty_playable_squares(st)))

\* the two searches tried in the other order
select_move_simple_first(st) ==
    LET m == find_simple_move(st)
    IN IF m = None THEN find_capture_move(st) ELSE m

\* move = find_capture_move(state); if not move: move = find_simple_move(state)
select_move(st) ==
    LET m == find_capture_move(st)
    IN IF m = None THEN find_simple_move(st) ELSE m

-----------------------------------------------------------------------------
(* The search harness: every snapshot of at most MaxCells elements over a   *)
(* corner of the board, the cells beyond its edge and a missing name.       *)

HarnessNames ==
    << CellName(5, 5), CellName(6, 6), CellName(7, 7), CellName(4, 6),
       CellName(3, 7), CellName(8, 8), CellName(5, 5) \o <<"b">>, None >>

HarnessSrcs == { <<YOU>>, <<ME>>, <<"img", GRAY>>, None }

RawOf(S, f) ==
    LET ks == SelectSeq([k \in 1..Len(HarnessNames) |-> k], LAMBDA k : k \in S)
    IN [j \in 1..Len(ks) |-> <<HarnessNames[ks[j]], f[ks[j]]>>]

SearchInit ==
    /\ \E S \in SUBSET (1..Len(HarnessNames)) :
          /\ Cardinality(S) <= MaxCells
          /\ \E f \in [S -> HarnessSrcs] : raw = RawOf(S, f)
    /\ state = <<>>
    /\ phase = "raw"
    /\ capture = None
    /\ simple = None
    /\ move = None
    /\ board = <<>> /\ message = None /\ selected = None /\ pending = <<>>
    /\ turnNo = 0 /\ pc = "harness" /\ n = 0 /\ i = 0 /\ idx = 0
    /\ name = None /\ pieces = <<>> /\ result = "harness" /\ trace = <<>>
    /\ seen = {}

\* BoardState.from_page over the rendered elements
SnapshotStep ==
    /\ phase = "raw"
    /\ state' = FromPairs(<<>>, raw)
    /\ phase' = "snapshot"
    /\ UNCHANGED <<raw, capture, simple, move>>
    /\ UNCHANGED <<surface, lvars>>

\* lines 112-114 of make_moves on that snapshot; find_simple_move is evaluated
\* whether or not the capture search found a move
SearchStep ==
    /\ phase = "snapshot"
    /\ capture' = find_capture_move(state)
    /\ simple' = find_simple_move(state)
    /\ move' = select_move(state)
    /\ phase' = "searched"
    /\ UNCHANGED <<raw, state>>
    /\ UNCHANGED <<surface, lvars>>

SearchNext == SnapshotStep \/ SearchStep

SearchSpec == SearchInit /\ [][SearchNext]_vars

-----------------------------------------------------------------------------
(* The game surface: the page of the checkers game.  It renders the dark    *)
(* cells of the 8x8 board as img elements named spaceXY, shows the turn in  *)
(* #message, and acts on a click some time after the click was delivered.   *)

DarkCells == { c \in (0..7) \X (0..7) : (c[1] + c[2]) % 2 = 0 }

NumImgs == Cardinality(DarkCells)

\* the k-th img of #board in document order: rows from y = 7 down, x rising
Elem(k) ==
    LET y == 7 - ((k - 1) \div 4)
    IN <<2 * ((k - 1) % 4) + (y % 2), y>>

ElemName(k) == CellName(Elem(k)[1], Elem(k)[2])

\* the src attribute of a cell, split at "/"
SrcOf(b, c) == <<b[c]>>

MakeBoard(you, me) ==
    [c \in DarkCells |-> IF c \in you THEN YOU ELSE IF c \in me THEN ME ELSE GRAY]

StartBoard ==
    MakeBoard({c \in DarkCells : c[2] <= 2}, {c \in DarkCells : c[2] >= 5})

\* the start position after 2,2 -> 3,3 and 5,5 -> 4,4: a capture is available
MidBoard ==
    MakeBoard(({c \in DarkCells : c[2] <= 2} \ {<<2, 2>>}) \cup {<<3, 3>>},
              ({c \in DarkCells : c[2] >= 5} \ {<<5, 5>>}) \cup {<<4, 4>>})

\* a position in which the player's only piece cannot move
BlockedBoard == MakeBoard({<<0, 6>>}, {<<1, 7>>})

InitBoards == {StartBoard, MidBoard, BlockedBoard}

Chars_MakeAMove ==
    <<"M", "a", "k", "e", " ", "a", " ", "m", "o", "v", "e">>

MsgMakeAMove == Chars_MakeAMove \o <<".">>

MsgSelect == <<"S", "e", "l", "e", "c", "t", ".">>

MsgWait == <<"P", "l", "e", "a", "s", "e", " ", "w", "a", "i", "t", ".">>

MsgOver == <<"Y", "o", "u", " ", "w", "i", "n", ".">>

RestartControl == <<"Restart...">>

\* the cell whose img a click on img[name=target] lands on
CellOfName(target) ==
    CHOOSE c \in DarkCells : CellName(c[1], c[2]) = target

PlayerTurn == message \in {MsgMakeAMove, MsgSelect}

\* a move of the player the game accepts
PlayerMoveLegal(b, from, to) ==
    /\ b[from] = YOU /\ b[to] = GRAY
    /\ to[2] - from[2] \in {1, 2}
    /\ \/ to[2] - from[2] = 1 /\ to[1] - from[1] \in {-1, 1}
       \/ /\ to[2] - from[2] = 2 /\ to[1] - from[1] \in {-2, 2}
          /\ b[<<(from[1] + to[1]) \div 2, from[2] + 1>>] = ME

\* the board after a move of either side (a jump removes the piece jumped)
ApplyMove(b, from, to) ==
    [c \in DarkCells |->
        IF c = from THEN GRAY
        ELSE IF c = to THEN b[from]
        ELSE IF /\ to[2] - from[2] \in {-2, 2}
                /\ c = <<(from[1] + to[1]) \div 2, (from[2] + to[2]) \div 2>>
             THEN GRAY
        ELSE b[c]]

OppDirs == << <<-1, -1>>, <<1, -1>>, <<-2, -2>>, <<2, -2>> >>

OppFrom(j) == Elem(((j - 1) \div 4) + 1)

OppTo(j) ==
    <<OppFrom(j)[1] + OppDirs[((j - 1) % 4) + 1][1],
      OppFrom(j)[2] + OppDirs[((j - 1) % 4) + 1][2]>>

\* the j-th candidate reply of the opponent is a move of the game
OppMoveLegal(b, j) ==
    LET from == OppFrom(j)
        to == OppTo(j)
    IN /\ to \in DarkCells
       /\ b[from] = ME /\ b[to] = GRAY
       /\ (from[2] - to[2] = 2) =>
             b[<<(from[1] + to[1]) \div 2, from[2] - 1>>] = YOU

\* the replies the opponent chooses among
OppReplies(b) ==
    LET all == SelectSeq([j \in 1..(4 * NumImgs) |-> j], LAMBDA j : OppMoveLegal(b, j))
    IN { all[k] : k \in 1..(IF Len(all) < MaxReplies THEN Len(all) ELSE MaxReplies) }

\* the surface acts on the oldest click delivered to it
SurfaceClick ==
    /\ pending # <<>>
    /\ pending' = Tail(pending)
    /\ LET target == Head(pending)
       IN IF target = RestartControl
          THEN /\ board' = StartBoard
               /\ message' = MsgSelect
               /\ selected' = None
               /\ turnNo' = turnNo + 1
          ELSE LET c == CellOfName(target)
               IN IF ~PlayerTurn
                  THEN UNCHANGED <<board, message, selected, turnNo>>
                  ELSE IF board[c] = YOU
                  THEN /\ selected' = c
                       /\ UNCHANGED <<board, message, turnNo>>
                  ELSE IF selected # None /\ PlayerMoveLegal(board, selected, c)
                  THEN /\ board' = ApplyMove(board, selected, c)
                       /\ message' = MsgWait
                       /\ selected' = None
                       /\ UNCHANGED turnNo
                  ELSE UNCHANGED <<board, message, selected, turnNo>>
    /\ seen' = IF pc \in {"read_name", "read_src"} THEN seen \cup {board'} ELSE seen
    /\ UNCHANGED <<pc, n, i, idx, name, pieces, result, trace>>
    /\ UNCHANGED svars

\* the opponent replies and the surface starts the next turn of the player
SurfaceReply ==
    /\ message = MsgWait
    /\ IF OppReplies(board) = {}
       THEN /\ message' = MsgOver
            /\ UNCHANGED <<board, turnNo>>
       ELSE /\ \E j \in OppReplies(board) :
                  board' = ApplyMove(board, OppFrom(j), OppTo(j))
            /\ message' = MsgMakeAMove
            /\ turnNo' = turnNo + 1
    /\ seen' = IF pc \in {"read_name", "read_src"} THEN seen \cup {board'} ELSE seen
    /\ UNCHANGED <<selected, pending>>
    /\ UNCHANGED <<pc, n, i, idx, name, pieces, result, trace>>
    /\ UNCHANGED svars

SurfaceNext == SurfaceClick \/ SurfaceReply

-----------------------------------------------------------------------------
(* run_checkers_demo: make_moves(page, n), then restart_game(page) *)

Ev(op, target) == [op |-> op, target |-> target, turn |-> turnNo]

RECURSIVE Trim(_)
\* innerText.trim()
Trim(t) ==
    IF t = <<>> THEN t
    ELSE IF Head(t) = " " THEN Trim(Tail(t))
    ELSE IF t[Len(t)] = " " THEN Trim(SubSeq(t, 1, Len(t) - 1))
    ELSE t

StartsWith(t, p) == Len(t) >= Len(p) /\ SubSeq(t, 1, Len(p)) = p

\* the predicate wait_for_turn polls
TurnPredicate(text) == StartsWith(Trim(text), Chars_MakeAMove)

\* wait_for_turn: await page.wait_for_selector("#message")
WaitMessage ==
    /\ pc = "wait_message"
    /\ message # None
    /\ pc' = "wait_turn"
    /\ UNCHANGED <<n, i, idx, name, pieces, result, trace, seen>>
    /\ UNCHANGED <<raw, state, phase, capture, simple, move>>
    /\ UNCHANGED surface

\* wait_for_turn: await page.wait_for_function(...)
WaitTurn ==
    /\ pc = "wait_turn"
    /\ TurnPredicate(message)
    /\ pc' = "query"
    /\ trace' = Append(trace, Ev("wait", None))
    /\ UNCHANGED <<n, i, idx, name, pieces, result, seen>>
    /\ UNCHANGED <<raw, state, phase, capture, simple, move>>
    /\ UNCHANGED surface

\* from_page: images = await page.query_selector_all("#board img")
Query ==
    /\ pc = "query"
    /\ pieces' = <<>>
    /\ idx' = 1
    /\ seen' = {board}
    /\ pc' = "read_name"
    /\ UNCHANGED <<n, i, name, result, trace>>
    /\ UNCHANGED <<raw, state, phase, capture, simple, move>>
    /\ UNCHANGED surface

\* from_page: name = await img.get_attribute("name")
ReadName ==
    /\ pc = "read_name"
    /\ name' = ElemName(idx)
    /\ pc' = "read_src"
    /\ UNCHANGED <<n, i, idx, pieces, result, trace, seen>>
    /\ UNCHANGED <<raw, state, phase, capture, simple, move>>
    /\ UNCHANGED surface

\* from_page: src = await img.get_attribute("src"), pieces[name] = filename,
\* and return cls(pieces) after the last element
ReadSrc ==
    /\ pc = "read_src"
    /\ pieces' = ReadElement(pieces, name, SrcOf(board, Elem(idx)))
    /\ IF idx = NumImgs
       THEN /\ state' = ReadElement(pieces, name, SrcOf(board, Elem(idx)))
            /\ pc' = "search"
            /\ trace' = Append(trace, Ev("snapshot", None))
            /\ UNCHANGED idx
       ELSE /\ idx' = idx + 1
            /\ pc' = "read_name"
            /\ UNCHANGED <<state, trace>>
    /\ UNCHANGED <<n, i, name, result, seen>>
    /\ UNCHANGED <<raw, phase, capture, simple, move>>
    /\ UNCHANGED surface

\* make_moves: the search found a move
FoundMove ==
    /\ pc = "search"
    /\ select_move(state) # None
    /\ move' = select_move(state)
    /\ pc' = "click_from"
    /\ UNCHANGED <<n, i, idx, name, pieces, result, trace, seen>>
    /\ UNCHANGED <<raw, state, phase, capture, simple>>
    /\ UNCHANGED surface

\* make_moves: no move, the loop keeps going (the return is missing)
NoMoves_continue ==
    /\ pc = "search"
    /\ select_move(state) = None
    /\ i' = i + 1
    /\ pc' = IF i + 1 = n THEN "restart_click" ELSE "wait_message"
    /\ result' = IF i + 1 = n THEN "exhausted" ELSE "running"
    /\ move' = None
    /\ trace' = Append(trace, Ev("nomoves", None))
    /\ UNCHANGED <<n, idx, name, pieces, seen>>
    /\ UNCHANGED <<raw, state, phase, capture, simple>>
    /\ UNCHANGED surface

\* make_moves: print("No moves available , ending game.") and return
NoMoves ==
    /\ pc = "search"
    /\ select_move(state) = None
    /\ move' = None
    /\ result' = "nomoves"
    /\ pc' = "restart_click"
    /\ trace' = Append(trace, Ev("nomoves", None))
    /\ UNCHANGED <<n, i, idx, name, pieces, seen>>
    /\ UNCHANGED <<raw, state, phase, capture, simple>>
    /\ UNCHANGED surface

\* perform_move with its two clicks in the other order
perform_move_swapped(from_sq, to_sq) ==
    <<CellName(to_sq[1], to_sq[2]), CellName(from_sq[1], from_sq[2])>>

\* the names perform_move clicks, in order
perform_move(from_sq, to_sq) ==
    <<CellName(from_sq[1], from_sq[2]), CellName(to_sq[1], to_sq[2])>>

\* perform_move: click the piece to select it
ClickFrom ==
    /\ pc = "click_from"
    /\ pending' = Append(pending, perform_move(move[1], move[2])[1])
    /\ trace' = Append(trace, Ev("click", perform_move(move[1], move[2])[1]))
    /\ pc' = "click_to"
    /\ UNCHANGED <<n, i, idx, name, pieces, result, seen>>
    /\ UNCHANGED <<raw, state, phase, capture, simple, move>>
    /\ UNCHANGED <<board, message, selected, turnNo>>

\* perform_move: click the destination square
ClickTo ==
    /\ pc = "click_to"
    /\ pending' = Append(pending, perform_move(move[1], move[2])[2])
    /\ trace' = Append(trace, Ev("click", perform_move(move[1], move[2])[2]))
    /\ pc' = "pause"
    /\ UNCHANGED <<n, i, idx, name, pieces, result, seen>>
    /\ UNCHANGED <<raw, state, phase, capture, simple, move>>
    /\ UNCHANGED <<board, message, selected, turnNo>>

\* make_moves: await page.wait_for_timeout(500), and the next iteration
Pause ==
    /\ pc = "pause"
    /\ i' = i + 1
    /\ pc' = IF i + 1 = n THEN "restart_click" ELSE "wait_message"
    /\ result' = IF i + 1 = n THEN "exhausted" ELSE "running"
    /\ trace' = Append(trace, Ev("pause", None))
    /\ UNCHANGED <<n, idx, name, pieces, seen>>
    /\ UNCHANGED <<raw, state, phase, capture, simple, move>>
    /\ UNCHANGED surface

\* restart_game: await page.click("text=Restart...")
RestartClick ==
    /\ pc = "restart_click"
    /\ pending' = Append(pending, RestartControl)
    /\ trace' = Append(trace, Ev("restart", RestartControl))
    /\ pc' = "restart_wait"
    /\ UNCHANGED <<n, i, idx, name, pieces, result, seen>>
    /\ UNCHANGED <<raw, state, phase, capture, simple, move>>
    /\ UNCHANGED <<board, message, selected, turnNo>>

\* the number of imgs whose src ends with a file name
CountOf(b, file) ==
    Cardinality({c \in DarkCells : SrcOf(b, c)[Len(SrcOf(b, c))] = file})

\* the number of pieces of each side at the start of a game
StartCount == 12

\* the restart predicate testing the player's pieces only
RestartPredicate_you_only(b) == CountOf(b, YOU) = StartCount

\* the predicate restart_game polls
RestartPredicate(b) == CountOf(b, YOU) = StartCount /\ CountOf(b, ME) = StartCount

\* restart_game: await page.wait_for_function(...), then
\* print("Game successfully restarted.")
RestartWait ==
    /\ pc = "restart_wait"
    /\ RestartPredicate(board)
    /\ trace' = Append(trace, Ev("restarted", <<CountOf(board, YOU), CountOf(board, ME)>>))
    /\ pc' = "done"
    /\ UNCHANGED <<n, i, idx, name, pieces, result, seen>>
    /\ UNCHANGED <<raw, state, phase, capture, simple, move>>
    /\ UNCHANGED surface

FlowNext ==
    \/ WaitMessage \/ WaitTurn \/ Query \/ ReadName \/ ReadSrc
    \/ FoundMove \/ NoMoves \/ ClickFrom \/ ClickTo \/ Pause
    \/ RestartClick \/ RestartWait

Init ==
    /\ board \in InitBoards
    /\ message \in {MsgMakeAMove, MsgSelect}
    /\ selected = None
    /\ pending = <<>>
    /\ turnNo = 1
    /\ pc = "wait_message"
    /\ n \in 1..MaxMoves
    /\ i = 0
    /\ idx = 0
    /\ name = None
    /\ pieces = <<>>
    /\ result = "running"
    /\ trace = <<>>
    /\ seen = {}
    /\ raw = <<>> /\ state = <<>> /\ phase = "loop"
    /\ capture = None /\ simple = None /\ move = None

Next == FlowNext \/ SurfaceNext

Spec == Init /\ [][Next]_vars

\* the event loop runs the flow whenever it can go on, and the page acts on
\* every click and plays every reply
FairSpec == Spec /\ WF_vars(FlowNext) /\ WF_vars(SurfaceNext)

-----------------------------------------------------------------------------
(* Properties of the snapshot views and of the move search *)

\* the coordinates of the entries of a snapshot holding a file
CellsOf(st, file) == { Coord(e[1]) : e \in { d \in Range(st) : d[2] = file } }

OnBoard(c) == c[1] \in 0..7 /\ c[2] \in 0..7

\* a jump of the reference definition: from a player piece, over an opponent
\* piece, to an empty playable cell of the board
IsJump(st, from, to) ==
    /\ from \in CellsOf(st, YOU)
    /\ \E dx \in {-2, 2} :
          /\ to = <<from[1] + dx, from[2] + 2>>
          /\ OnBoard(to)
          /\ <<from[1] + (dx \div 2), from[2] + 1>> \in CellsOf(st, ME)
          /\ to \in CellsOf(st, GRAY)

HasJump(st) ==
    \E from \in CellsOf(st, YOU), to \in CellsOf(st, GRAY) : IsJump(st, from, to)

\* a step of the reference definition
IsStep(st, from, to) ==
    /\ from \in CellsOf(st, YOU)
    /\ to \in { <<from[1] - 1, from[2] + 1>>, <<from[1] + 1, from[2] + 1>> }
    /\ to \in CellsOf(st, GRAY)

HasStep(st) ==
    \E from \in CellsOf(st, YOU), to \in CellsOf(st, GRAY) : IsStep(st, from, to)

Abs(v) == IF v < 0 THEN -v ELSE v

\* the shape of a move: its column and row distances
Shape(m) == <<Abs(m[2][1] - m[1][1]), m[2][2] - m[1][2]>>

\* C1: the move the game loop selects from a snapshot is a simple move only if
\* find_capture_move found no capture in it, and it is a capture (2 columns,
\* 2 rows) whenever some player piece has a valid capture in the snapshot.
C1_CapturePreference ==
    phase = "searched" =>
        /\ (move # None /\ Shape(move) = <<1, 1>>) => capture = None
        /\ HasJump(state) => (move # None /\ Shape(move) = <<2, 2>>)

\* a snapshot offering both a capture and a simple move, searched
C1_Witness ==
    /\ phase = "searched"
    /\ HasJump(state) /\ HasStep(state)
    /\ Shape(move) = <<2, 2>>

\* C2: find_capture_move returns None iff the snapshot has no jump of the
\* reference definition, and a move it returns is such a jump, so its
\* destination is never off the board.
C2_CaptureSoundComplete ==
    phase = "searched" =>
        /\ (capture = None) <=> ~HasJump(state)
        /\ capture # None =>
              /\ IsJump(state, capture[1], capture[2])
              /\ OnBoard(capture[2])

\* a player piece next to an opponent piece whose landing cell, rendered
\* empty, lies beyond the edge of the board: no capture is returned
C2_Witness ==
    /\ phase = "searched"
    /\ capture = None
    /\ \E from \in CellsOf(state, YOU), dx \in {-2, 2} :
          /\ <<from[1] + (dx \div 2), from[2] + 1>> \in CellsOf(state, ME)
          /\ <<from[1] + dx, from[2] + 2>> \in CellsOf(state, GRAY)
          /\ ~OnBoard(<<from[1] + dx, from[2] + 2>>)

\* C3 as stated: find_simple_move returns None iff no player piece has an
\* empty playable cell at (x-1, y+1) or (x+1, y+1), and a move it returns goes
\* from a player piece to such a cell.
C3_SimpleIffStep ==
    phase = "searched" =>
        /\ (simple = None) <=> ~HasStep(state)
        /\ simple # None => IsStep(state, simple[1], simple[2])

\* C3 amended: find_simple_move returns None iff no player piece has an
\* empty playable cell of the board (both coordinates in 0..7) at (x-1, y+1)
\* or (x+1, y+1), and a move it returns goes from a player piece to such a
\* cell.
C3_SimpleIffStepOnBoard ==
    phase = "searched" =>
        /\ (simple = None) <=>
              ~\E from \in CellsOf(state, YOU), to \in CellsOf(state, GRAY) :
                    IsStep(state, from, to) /\ OnBoard(to)
        /\ simple # None =>
              IsStep(state, simple[1], simple[2]) /\ OnBoard(simple[2])

\* a player piece whose only empty diagonal neighbour, as rendered, lies
\* beyond the edge of the board: no simple move is returned
C3_Witness ==
    /\ phase = "searched"
    /\ simple = None
    /\ \E from \in CellsOf(state, YOU) :
          /\ <<from[1] + 1, from[2] + 1>> \in CellsOf(state, GRAY)
          /\ ~OnBoard(<<from[1] + 1, from[2] + 1>>)

Disjoint3(a, b, c) == a \cap b = {} /\ a \cap c = {} /\ b \cap c = {}

ViewsDisjointOnBoard(st) ==
    /\ Disjoint3(Range(player_pieces(st)), Range(opponent_pieces(st)),
                 Range(empty_playable_squares(st)))
    /\ \A c \in Range(player_pieces(st)) \cup Range(opponent_pieces(st))
               \cup Range(empty_playable_squares(st)) : OnBoard(c)

\* the cell identifiers of the board: spaceXY with X and Y in 0..7
IsBoardName(key) ==
    /\ Len(key) = 7
    /\ SubSeq(key, 1, 5) = Prefix
    /\ \E x \in 0..7, y \in 0..7 : key = CellName(x, y)

\* C6 as stated: for a snapshot built from any sequence of pairs the three
\* views are pairwise disjoint and hold only coordinates of the board.
C6_AnyPairsDisjointOnBoard ==
    phase # "raw" => ViewsDisjointOnBoard(state)

\* C6 amended: for a snapshot all of whose cell identifiers are identifiers
\* of the board (spaceXY, X and Y in 0..7), the three views are pairwise
\* disjoint and hold only coordinates of the board.
C6_BoardNamesDisjointOnBoard ==
    (phase # "raw" /\ \A e \in Range(state) : IsBoardName(e[1]))
        => ViewsDisjointOnBoard(state)

\* a snapshot of board identifiers in which each view holds a cell
C6_Witness ==
    /\ phase # "raw"
    /\ \A e \in Range(state) : IsBoardName(e[1])
    /\ player_pieces(state) # <<>>
    /\ opponent_pieces(state) # <<>>
    /\ empty_playable_squares(state) # <<>>

-----------------------------------------------------------------------------
(* Properties of the game loop and of the restart handshake *)

OpsOf(tr, ops) == SelectSeq(tr, LAMBDA e : e.op \in ops)

\* the cell activations sent to the surface, in order
Clicks == OpsOf(trace, {"click"})

\* C4: the loop never drives a second move while the surface is still in the
\* player turn of the previous move: between two consecutive moves of the
\* loop the surface has started a new player turn.
C4_NoDoubleMove ==
    \A k \in 1..Len(Clicks) :
        (k % 2 = 1 /\ k + 2 <= Len(Clicks)) => Clicks[k + 2].turn > Clicks[k].turn

\* what from_page returns when the surface shows board b throughout
SnapshotOf(b) ==
    FromPairs(<<>>, [k \in 1..NumImgs |-> <<ElemName(k), SrcOf(b, Elem(k))>>])

\* C5: every snapshot from_page builds is the cell contents the surface
\* showed at one single instant of the read.
C5_SnapshotAtomic ==
    pc = "search" => \E b \in seen : state = SnapshotOf(b)

\* the index of the first event of an operation in the trace, 0 if none
FirstOp(op) ==
    IF \E k \in 1..Len(trace) : trace[k].op = op
    THEN CHOOSE k \in 1..Len(trace) :
            trace[k].op = op /\ \A j \in 1..(k - 1) : trace[j].op # op
    ELSE 0

LoopOps == {"wait", "snapshot", "click", "pause"}

\* C7: a turn whose snapshot offers neither a capture nor a simple move ends
\* the loop at once: no cell is activated in that turn, "no moves" is
\* reported, and no wait, snapshot or activation of the loop follows, whatever
\* is left of the budget.
C7_NoMoveTurnEndsLoop ==
    /\ [][ /\ (pc = "search" /\ pc' # "search" /\ ~HasJump(state) /\ ~HasStep(state))
              => /\ result' = "nomoves"
                 /\ trace' = Append(trace, [op |-> "nomoves", target |-> None, turn |-> turnNo])
                 /\ i' = i
           /\ result = "nomoves"
              => /\ result' = "nomoves"
                 /\ OpsOf(trace', LoopOps) = OpsOf(trace, LoopOps) ]_vars
    /\ [](result = "nomoves" =>
            /\ pc \in {"restart_click", "restart_wait", "done"}
            /\ FirstOp("nomoves") >= 3
            /\ trace[FirstOp("nomoves") - 1].op = "snapshot"
            /\ trace[FirstOp("nomoves") - 2].op = "wait")

\* the loop ended on a snapshot with a player piece and no move while budget
\* was left, and the flow has gone on to the restart
C7_Witness ==
    /\ result = "nomoves"
    /\ i + 1 < n
    /\ player_pieces(state) # <<>>
    /\ pc = "done"

\* C8: restart_game activates the restart control once and no cell, and it
\* returns only on a surface observed, after that activation, with exactly 12
\* player pieces and 12 opponent pieces at once.
C8_RestartHandshake ==
    /\ \A k \in 1..Len(trace) :
          /\ trace[k].op = "restarted" =>
                /\ trace[k].target = <<12, 12>>
                /\ k > 1 /\ trace[k - 1].op = "restart"
          /\ trace[k].op = "restart" =>
                /\ trace[k].target = RestartControl
                /\ \A j \in (k + 1)..Len(trace) : trace[j].op = "restarted"
    /\ pc = "done" =>
          /\ Len(trace) >= 2
          /\ trace[Len(trace)].op = "restarted"
          /\ Len(OpsOf(trace, {"restart"})) = 1
    /\ pc = "restart_wait" => trace[Len(trace)].op = "restart"

\* restart_game returned on a surface that showed 12 and 12 pieces before it
\* acted on the restart
C8_Witness ==
    /\ pc = "done"
    /\ RestartControl \in Range(pending)

\* the operation at position k of the loop's part of the trace
LoopPattern(k) ==
    <<{"wait"}, {"snapshot"}, {"click", "nomoves"}, {"click"}, {"pause"}>>[((k - 1) % 5) + 1]

LoopTrace == OpsOf(trace, LoopOps \cup {"nomoves"})

C9_Safety ==
    /\ Len(Clicks) <= 2 * n
    /\ Len(LoopTrace) <= 5 * n
    /\ \A k \in 1..Len(LoopTrace) :
          /\ LoopTrace[k].op \in LoopPattern(k)
          /\ LoopTrace[k].op = "nomoves" => k = Len(LoopTrace)
    /\ pc = "click_to" =>
          /\ move[1] \in CellsOf(state, YOU)
          /\ trace[Len(trace)].op = "click"
          /\ trace[Len(trace)].target = CellName(move[1][1], move[1][2])
    /\ pc = "pause" =>
          /\ move[1] \in CellsOf(state, YOU)
          /\ move[2] \in CellsOf(state, GRAY)
          /\ trace[Len(trace) - 1].op = "click"
          /\ trace[Len(trace) - 1].target = CellName(move[1][1], move[1][2])
          /\ trace[Len(trace)].op = "click"
          /\ trace[Len(trace)].target = CellName(move[2][1], move[2][2])
          /\ trace[Len(trace) - 2].op = "snapshot"
          /\ trace[Len(trace) - 3].op = "wait"

\* how far the loop is into an iteration
FlowRank ==
    CASE pc = "wait_message" -> 0
      [] pc = "wait_turn" -> 1
      [] pc = "query" -> 2
      [] pc = "read_name" -> 1 + 2 * idx
      [] pc = "read_src" -> 2 + 2 * idx
      [] pc = "search" -> 3 + 2 * NumImgs
      [] pc = "click_from" -> 4 + 2 * NumImgs
      [] pc = "click_to" -> 5 + 2 * NumImgs
      [] pc = "pause" -> 6 + 2 * NumImgs
      [] OTHER -> 7 + 2 * NumImgs

\* a measure every step of the running loop increases, and n bounds
C9_Measure == i * (8 + 2 * NumImgs) + FlowRank

C9_Terminating ==
    /\ [](result = "running" =>
            /\ i < n
            /\ C9_Measure < n * (8 + 2 * NumImgs)
            /\ pc = "wait_turn" \/ ENABLED FlowNext)
    /\ [][(result = "running" /\ pc' # pc) =>
            (result' # "running" \/ C9_Measure' > C9_Measure)]_vars

\* C9: the cell activations of make_moves(page, n) are at most n pairs, each
\* the origin and then the destination of the move chosen from that turn's
\* snapshot, after a turn wait and a fresh snapshot; and the loop reaches a
\* terminal state within n iterations provided every turn wait is satisfied:
\* while it runs it has done fewer than n iterations, it can take a step unless
\* it is at a turn wait, and each step increases a measure that n bounds.
C9_ActivationTrace ==
    /\ []C9_Safety
    /\ C9_Terminating

\* the same termination as a liveness property of FairSpec
C9_Terminates ==
    ((pc = "wait_turn") ~> (pc # "wait_turn")) => <>(result # "running")

\* the budget of two or more moves was used up, a pair of clicks each turn
C9_Witness ==
    /\ result = "exhausted"
    /\ n >= 2
    /\ Len(Clicks) = 2 * n

\* C10: when restart_game returns after a game in which moves were played,
\* the surface has acted on the restart and shows the starting position.
C10_RestartEffective ==
    (pc = "done" /\ Clicks # <<>>) =>
        /\ RestartControl \notin Range(pending)
        /\ board = StartBoard

====
